---- MODULE Spec2Model ----
(***************************************************************************)
(* Model of the NRS map of sn_api (src/app/nrs/nrs_map.rs): a BTreeMap     *)
(* from subname keys to links, its update / remove / lookup methods, the   *)
(* name parser parse_out_subnames, the label joiner sub_names_vec_to_str   *)
(* and the link validator validate_nrs_link; and of the register fetches   *)
(* of src/app/register.rs, with the network client as an input.            *)
(*                                                                         *)
(* A string is a sequence of one-character strings, so that replace,       *)
(* split and join are computed character by character as the code does.    *)
(***************************************************************************)
EXTENDS Naturals, Sequences, FiniteSets

\* ------------------------------------------------------------------------
\* Bounds of the model
\* ------------------------------------------------------------------------

\* most subname labels in front of the top name of a name given to the map
MaxSubs == 2

\* most pieces concatenated into a name given to the name parser alone
MaxPieces == 4

\* ------------------------------------------------------------------------
\* Strings
\* ------------------------------------------------------------------------

\* the literal "safe://" of parse_out_subnames
Scheme == <<"s", "a", "f", "e", ":", "/", "/">>

Dot == "."

\* s starts with the pattern pat at position i
MatchesAt(s, pat, i) ==
    /\ i + Len(pat) - 1 <= Len(s)
    /\ \A j \in 1..Len(pat) : s[i + j - 1] = pat[j]

RECURSIVE ReplaceFrom(_, _, _, _)
ReplaceFrom(s, pat, to, i) ==
    IF i > Len(s) THEN <<>>
    ELSE IF MatchesAt(s, pat, i)
         THEN to \o ReplaceFrom(s, pat, to, i + Len(pat))
         ELSE <<s[i]>> \o ReplaceFrom(s, pat, to, i + 1)

\* str::replace: every non-overlapping match of pat, leftmost first
str_replace(s, pat, to) == ReplaceFrom(s, pat, to, 1)

RECURSIVE SplitFrom(_, _, _, _)
SplitFrom(s, sep, i, cur) ==
    IF i > Len(s) THEN <<cur>>
    ELSE IF s[i] = sep
         THEN <<cur>> \o SplitFrom(s, sep, i + 1, <<>>)
         ELSE SplitFrom(s, sep, i + 1, Append(cur, s[i]))

\* str::split(char): the pieces between separators; "" gives one empty piece
str_split(s, sep) == SplitFrom(s, sep, 1, <<>>)

RECURSIVE join(_, _)
\* [&str]::join(sep)
join(parts, sep) ==
    IF Len(parts) = 0 THEN <<>>
    ELSE IF Len(parts) = 1 THEN parts[1]
         ELSE parts[1] \o sep \o join(Tail(parts), sep)

RECURSIVE collect(_)
\* Iterator<String>::collect::<String>(): concatenation
collect(strs) ==
    IF Len(strs) = 0 THEN <<>> ELSE strs[1] \o collect(Tail(strs))

\* ------------------------------------------------------------------------
\* Name parser and label joiner
\* ------------------------------------------------------------------------

\* parse_out_subnames popping the first part (next) instead of the last
parse_out_subnames_pop_front(name) ==
    LET sanitized_name == str_replace(name, Scheme, <<>>)
        parts == str_split(sanitized_name, Dot)
    IN  join(Tail(parts), <<Dot>>)

\* parse_out_subnames collecting the parts without the separator
parse_out_subnames_concat(name) ==
    LET sanitized_name == str_replace(name, Scheme, <<>>)
        parts == str_split(sanitized_name, Dot)
    IN  collect(SubSeq(parts, 1, Len(parts) - 1))

\* removes the top name from a given name
parse_out_subnames(name) ==
    LET sanitized_name == str_replace(name, Scheme, <<>>)
        parts == str_split(sanitized_name, Dot)
        \* pop out the topname (last part)
        rest == SubSeq(parts, 1, Len(parts) - 1)
    IN  join(rest, <<Dot>>)

\* sub_names_vec_to_str giving the separator for no labels
sub_names_vec_to_str_dot(sub_names_arg) ==
    IF Len(sub_names_arg) # 0
    THEN LET length == Len(sub_names_arg) - 1
         IN  collect([i \in 1..Len(sub_names_arg) |->
                        IF i - 1 < length
                        THEN sub_names_arg[i] \o <<Dot>>
                        ELSE sub_names_arg[i]])
    ELSE <<Dot>>

\* sub_names_vec_to_str putting the separator after the last label too
sub_names_vec_to_str_trailing(sub_names_arg) ==
    IF Len(sub_names_arg) # 0
    THEN collect([i \in 1..Len(sub_names_arg) |-> sub_names_arg[i] \o <<Dot>>])
    ELSE <<>>

\* sub_names_vec_to_str collecting the labels without the separator
sub_names_vec_to_str_nosep(sub_names_arg) ==
    IF Len(sub_names_arg) # 0 THEN collect(sub_names_arg) ELSE <<>>

sub_names_vec_to_str(sub_names_arg) ==
    IF Len(sub_names_arg) # 0
    THEN LET length == Len(sub_names_arg) - 1
         IN  collect([i \in 1..Len(sub_names_arg) |->
                        IF i - 1 < length
                        THEN sub_names_arg[i] \o <<Dot>>
                        ELSE sub_names_arg[i]])
    ELSE <<>>

\* ------------------------------------------------------------------------
\* Results and errors
\* ------------------------------------------------------------------------

Ok(v) == <<"Ok", v>>
Err(kind) == <<"Err", kind>>

\* Error::ContentError: what the lookups and remove return for an absent key
ContentError == "ContentError"
\* Error::InvalidInput: what the validator returns for an unversioned link
InvalidInput == "InvalidInput"
\* the error of Safe::parse_url for a link it cannot decode
UrlError == "UrlError"

is_ok(r) == r[1] = "Ok"

\* ------------------------------------------------------------------------
\* Links and the link validator
\* ------------------------------------------------------------------------

ContentTypes == {"Raw", "FilesContainer", "NrsMapContainer"}
DataTypes == {"File", "Register"}
Versions == {"none", "v1"}

\* a malformed link
BadLink == <<"not-a-url">>

\* the links given to update: every classification, and one malformed link
Links == (ContentTypes \X DataTypes \X Versions) \cup {BadLink}

\* Safe::parse_url: decodes a link into its classification and version
parse_url(link_arg) ==
    IF Len(link_arg) = 3
    THEN Ok([content_type |-> link_arg[1], data_type |-> link_arg[2],
             content_version |-> link_arg[3]])
    ELSE Err(UrlError)

\* validate_nrs_link without the data type branch
validate_nrs_link_content_only(link_arg) ==
    LET parsed == parse_url(link_arg) IN
    IF ~is_ok(parsed) THEN parsed
    ELSE LET link_encoder == parsed[2] IN
         IF link_encoder.content_version = "none"
         THEN IF \/ link_encoder.content_type = "FilesContainer"
                 \/ link_encoder.content_type = "NrsMapContainer"
              THEN Err(InvalidInput)
              ELSE Ok(<<>>)
         ELSE Ok(<<>>)

\* validate_nrs_link accepting a link that does not decode
validate_nrs_link_lenient(link_arg) ==
    LET parsed == parse_url(link_arg) IN
    IF ~is_ok(parsed) THEN Ok(<<>>)
    ELSE LET link_encoder == parsed[2] IN
         IF link_encoder.content_version = "none"
         THEN IF \/ link_encoder.content_type = "FilesContainer"
                 \/ link_encoder.content_type = "NrsMapContainer"
              THEN Err(InvalidInput)
              ELSE IF link_encoder.data_type = "Register"
                   THEN Err(InvalidInput)
                   ELSE Ok(<<>>)
         ELSE Ok(<<>>)

validate_nrs_link(link_arg) ==
    LET parsed == parse_url(link_arg) IN
    IF ~is_ok(parsed) THEN parsed
    ELSE LET link_encoder == parsed[2] IN
         IF link_encoder.content_version = "none"
         THEN IF \/ link_encoder.content_type = "FilesContainer"
                 \/ link_encoder.content_type = "NrsMapContainer"
              THEN Err(InvalidInput)
              ELSE IF link_encoder.data_type = "Register"
                   THEN Err(InvalidInput)
                   ELSE Ok(<<>>)
         ELSE Ok(<<>>)

\* ------------------------------------------------------------------------
\* Inputs
\* ------------------------------------------------------------------------

\* the subname label and the top names of the names given to the map
Sub == <<"a">>
Top == <<"x">>
TopNames == {Top, <<"y">>}

\* the full name with the subname labels subs in front of the top name t
FullName(subs, t) == join(subs \o <<t>>, <<Dot>>)

RECURSIVE SubSeqs(_)
\* the sequences of k labels Sub
SubSeqs(k) == IF k = 0 THEN <<>> ELSE <<Sub>> \o SubSeqs(k - 1)

\* the label sequences given to resolve_for_subnames
SubNameVecs == {SubSeqs(k) : k \in 0..MaxSubs} \cup {<<<<>>>>, <<Sub, <<>>>>}

\* the full names given to update: up to MaxSubs labels and a top name;
\* names with the scheme in front and with the scheme in front of the top
\* name; and the empty name
Names ==
    LET plain == {FullName(SubSeqs(k), t) : k \in 0..MaxSubs, t \in TopNames}
        front == {Scheme \o FullName(SubSeqs(k), Top) : k \in 0..1}
        inside == {FullName(<<Sub>>, Scheme \o Top)}
    IN  plain \cup front \cup inside \cup {<<>>}

\* the keys given to remove and get_link_for: every key update can write,
\* and the full names themselves
Paths == {join(SubSeqs(k), <<Dot>>) : k \in 0..MaxSubs + 1} \cup
         {FullName(SubSeqs(k), Top) : k \in 0..1}

Pieces == {<<"a">>, <<"b">>, <<Dot>>, Scheme}

RECURSIVE Concats(_)
\* the concatenations of exactly k pieces
Concats(k) ==
    IF k = 0 THEN {<<>>}
    ELSE {p \o s : p \in Pieces, s \in Concats(k - 1)}

\* the names given to the name parser alone
WildNames == UNION {Concats(k) : k \in 0..MaxPieces}

\* ------------------------------------------------------------------------
\* Registers: urls, errors and the replies of safe_client
\* ------------------------------------------------------------------------

\* Option::None
None == "none"

\* an error with its message
ErrMsg(kind, msg) == <<"Err", kind, msg>>

EmptyContent == "EmptyContent"
ContentNotFound == "ContentNotFound"
\* an error of the client that fetch_register_entries has no arm for
NetDataError == "NetDataError"

\* DataAddress::Register(reg_address)
RegisterAddresses == {<<"Register", "r1">>, <<"Register", "r2">>}
\* a DataAddress that is no register
OtherAddresses == {<<"Bytes", "b1">>}

EntryHashes == {"h1", "h2"}
Entries == {"e1", "e2"}

\* a Url: its address and its content version
Urls == [address : RegisterAddresses \cup OtherAddresses,
         content_version : {None} \cup EntryHashes]

\* no Url: no register fetch has been made
NoUrl == [address |-> <<"none", "none">>, content_version |-> None]

\* the failures of a call to safe_client, with the client's message
ClientErrors ==
    {ErrMsg(kind, <<"client">>) :
        kind \in {EmptyContent, ContentNotFound, NetDataError}}

\* what safe_client.get_register_entry can reply
EntryReplies == {Ok(e) : e \in Entries} \cup ClientErrors

\* what safe_client.read_register can reply
ReadReplies ==
    {Ok(entries) : entries \in SUBSET (EntryHashes \X Entries)}
        \cup ClientErrors

\* Safe::get_register_address
get_register_address(u) ==
    IF u.address[1] = "Register"
    THEN Ok(u.address)
    ELSE ErrMsg(ContentError, <<"this url must refer to a register", u>>)

\* Safe::fetch_register_entry, reply being what get_register_entry replies:
\* the result and the calls made to safe_client
fetch_register_entry(u, h, reply) ==
    LET address == get_register_address(u) IN
    IF ~is_ok(address)
    THEN [result |-> address, calls |-> <<>>]
    ELSE [result |-> reply,
          calls |-> << <<"get_register_entry", address[2], h, reply>> >>]

\* the match of fetch_register_entries on the result of the fetch
rewrite_errors(u, fetched) ==
    IF is_ok(fetched) THEN fetched
    ELSE IF fetched[2] = EmptyContent
         THEN ErrMsg(EmptyContent, <<"Register found at was empty", u>>)
         ELSE IF fetched[2] = ContentNotFound
              THEN ErrMsg(ContentNotFound, <<"No Register found at", u>>)
              ELSE fetched

\* fetch_register_entries reading the whole register whatever the version
fetch_register_entries_unversioned(u, reply_entry, reply_read) ==
    LET address == get_register_address(u) IN
    IF ~is_ok(address)
    THEN [result |-> address, calls |-> <<>>]
    ELSE [result |-> rewrite_errors(u, reply_read),
          calls |-> << <<"read_register", address[2], reply_read>> >>]

\* Safe::fetch_register_entries, reply_entry being what get_register_entry
\* replies and reply_read what read_register replies, if called: the result
\* and the calls made to safe_client
fetch_register_entries(u, reply_entry, reply_read) ==
    IF u.content_version # None
    THEN LET hash_arg == u.content_version
             fetched == fetch_register_entry(u, hash_arg, reply_entry)
             entries == IF is_ok(fetched.result)
                        THEN Ok({<<hash_arg, fetched.result[2]>>})
                        ELSE fetched.result
         IN  [result |-> rewrite_errors(u, entries), calls |-> fetched.calls]
    ELSE LET address == get_register_address(u) IN
         IF ~is_ok(address)
         THEN [result |-> address, calls |-> <<>>]
         ELSE [result |-> rewrite_errors(u, reply_read),
               calls |-> << <<"read_register", address[2], reply_read>> >>]

\* ------------------------------------------------------------------------
\* State
\* ------------------------------------------------------------------------

VARIABLES
    map,        \* NrsMap.map: BTreeMap<SubName, XorUrl>
    before,     \* NrsMap.map as it was when the last call started
    op,         \* the call that has just returned, "idle" when the caller
                \* has taken its result and no call has been made since
    name,       \* its name argument (update: full name; others: the key)
    sub_names,  \* its label sequence argument (resolve_for_subnames)
    link,       \* its link argument (update)
    result,     \* what it returned
    url,        \* the Url argument of a register fetch
    hash,       \* the EntryHash argument of fetch_register_entry
    client_calls \* the calls the fetch made to safe_client, with their replies

reg_vars == <<url, hash, client_calls>>

vars == <<map, before, op, name, sub_names, link, result, url, hash,
          client_calls>>

\* BTreeMap::new()
EmptyMap == <<>>

\* an insert that keeps the value of a key already present
map_insert_keep(m, k, v) ==
    [x \in DOMAIN m \cup {k} |-> IF x \in DOMAIN m THEN m[x] ELSE v]

\* BTreeMap::insert
map_insert(m, k, v) ==
    [x \in DOMAIN m \cup {k} |-> IF x = k THEN v ELSE m[x]]

\* a remove that takes the keys under k with it
map_remove_subtree(m, k) ==
    [x \in {y \in DOMAIN m : ~(Len(k) <= Len(y) /\ SubSeq(y, 1, Len(k)) = k)}
        |-> m[x]]

\* BTreeMap::remove (the map left behind)
map_remove(m, k) == [x \in DOMAIN m \ {k} |-> m[x]]

\* get_link_for falling back to the default entry
get_link_for_inherit(m, sub_name) ==
    IF sub_name \in DOMAIN m THEN Ok(m[sub_name])
    ELSE IF <<>> \in DOMAIN m THEN Ok(m[<<>>]) ELSE Err(ContentError)

\* NrsMap::get_link_for on the map m
get_link_for(m, sub_name) ==
    IF sub_name \in DOMAIN m THEN Ok(m[sub_name]) ELSE Err(ContentError)

\* NrsMap::resolve_for_subnames on the map m
resolve_for_subnames(m, sub_names_arg) ==
    LET sub_names_str == sub_names_vec_to_str(sub_names_arg)
    IN  get_link_for(m, sub_names_str)

\* NrsMap::get_default_link on the map m
get_default_link(m) == get_link_for(m, <<>>)

\* resolve_for_full_name on the map m: the key is derived by the name parser
resolve_for_full_name(m, full_name) ==
    get_link_for(m, parse_out_subnames(full_name))

\* nrs_map_remove_subname removing the key the name parser derives
remove_subname_parsed(m, n) ==
    LET key == parse_out_subnames(n) IN
    IF key \in DOMAIN m
    THEN <<map_remove(m, key), Ok(m[key])>>
    ELSE <<m, Err(ContentError)>>

\* NrsMap::nrs_map_remove_subname on the map m: the map it leaves and the
\* result it returns
remove_subname(m, n) ==
    IF n \in DOMAIN m
    THEN <<map_remove(m, n), Ok(m[n])>>
    ELSE <<m, Err(ContentError)>>

Init ==
    /\ map = EmptyMap
    /\ before = EmptyMap
    /\ op = "idle"
    /\ name = <<>>
    /\ sub_names = <<>>
    /\ link = <<>>
    /\ result = Ok(<<>>)
    /\ url = NoUrl
    /\ hash = None
    /\ client_calls = <<>>

\* update keyed by the full name
update_by_full_name(n, l) ==
    LET valid == validate_nrs_link(l) IN
    /\ op = "idle"
    /\ op' = "update"
    /\ name' = n
    /\ link' = l
    /\ sub_names' = <<>>
    /\ before' = map
    /\ UNCHANGED reg_vars
    /\ IF ~is_ok(valid)
       THEN /\ map' = map
            /\ result' = valid
       ELSE /\ map' = map_insert(map, n, l)
            /\ result' = Ok(l)

\* update inserting before it validates
update_insert_first(n, l) ==
    LET valid == validate_nrs_link(l)
        subname == parse_out_subnames(n)
    IN
    /\ op = "idle"
    /\ op' = "update"
    /\ name' = n
    /\ link' = l
    /\ sub_names' = <<>>
    /\ before' = map
    /\ UNCHANGED reg_vars
    /\ map' = map_insert(map, subname, l)
    /\ result' = IF ~is_ok(valid) THEN valid ELSE Ok(l)

\* update dropping the validator's error
update_unvalidated(n, l) ==
    LET subname == parse_out_subnames(n) IN
    /\ op = "idle"
    /\ op' = "update"
    /\ name' = n
    /\ link' = l
    /\ sub_names' = <<>>
    /\ before' = map
    /\ UNCHANGED reg_vars
    /\ map' = map_insert(map, subname, l)
    /\ result' = Ok(l)

\* NrsMap::update(name, link)
update(n, l) ==
    LET valid == validate_nrs_link(l) IN
    /\ op = "idle"
    /\ op' = "update"
    /\ name' = n
    /\ link' = l
    /\ sub_names' = <<>>
    /\ before' = map
    /\ UNCHANGED reg_vars
    /\ IF ~is_ok(valid)
       THEN /\ map' = map
            /\ result' = valid
       ELSE LET subname == parse_out_subnames(n) IN
            /\ map' = map_insert(map, subname, l)
            /\ result' = Ok(l)

\* nrs_map_remove_subname reading the entry without removing it
nrs_map_remove_subname_get(n) ==
    /\ op = "idle"
    /\ op' = "nrs_map_remove_subname"
    /\ name' = n
    /\ link' = <<>>
    /\ sub_names' = <<>>
    /\ before' = map
    /\ UNCHANGED reg_vars
    /\ map' = map
    /\ result' = IF n \in DOMAIN map THEN Ok(map[n]) ELSE Err(ContentError)

\* NrsMap::nrs_map_remove_subname(name)
nrs_map_remove_subname(n) ==
    /\ op = "idle"
    /\ op' = "nrs_map_remove_subname"
    /\ name' = n
    /\ link' = <<>>
    /\ sub_names' = <<>>
    /\ before' = map
    /\ UNCHANGED reg_vars
    /\ IF n \in DOMAIN map
       THEN /\ map' = map_remove(map, n)
            /\ result' = Ok(map[n])
       ELSE /\ map' = map
            /\ result' = Err(ContentError)

\* a call of get_link_for that takes the entry out of the map
call_get_link_for_take(n) ==
    /\ op = "idle"
    /\ op' = "get_link_for"
    /\ name' = n
    /\ link' = <<>>
    /\ sub_names' = <<>>
    /\ before' = map
    /\ UNCHANGED reg_vars
    /\ result' = get_link_for(map, n)
    /\ map' = map_remove(map, n)

\* a call of NrsMap::get_link_for(sub_name)
call_get_link_for(n) ==
    /\ op = "idle"
    /\ op' = "get_link_for"
    /\ name' = n
    /\ link' = <<>>
    /\ sub_names' = <<>>
    /\ before' = map
    /\ UNCHANGED reg_vars
    /\ result' = get_link_for(map, n)
    /\ UNCHANGED map

\* a call of NrsMap::get_default_link()
call_get_default_link ==
    /\ op = "idle"
    /\ op' = "get_default_link"
    /\ name' = <<>>
    /\ link' = <<>>
    /\ sub_names' = <<>>
    /\ before' = map
    /\ UNCHANGED reg_vars
    /\ result' = get_default_link(map)
    /\ UNCHANGED map

\* a call of NrsMap::resolve_for_subnames(sub_names)
call_resolve_for_subnames(s) ==
    /\ op = "idle"
    /\ op' = "resolve_for_subnames"
    /\ name' = <<>>
    /\ link' = <<>>
    /\ sub_names' = s
    /\ before' = map
    /\ UNCHANGED reg_vars
    /\ result' = resolve_for_subnames(map, s)
    /\ UNCHANGED map

\* the caller takes the result of the call that has returned
take_result ==
    /\ op # "idle"
    /\ op' = "idle"
    /\ name' = <<>>
    /\ link' = <<>>
    /\ sub_names' = <<>>
    /\ result' = Ok(<<>>)
    /\ before' = map
    /\ url' = NoUrl
    /\ hash' = None
    /\ client_calls' = <<>>
    /\ UNCHANGED map

\* a call of resolve_for_full_name(full_name)
call_resolve_for_full_name(n) ==
    /\ op = "idle"
    /\ op' = "resolve_for_full_name"
    /\ name' = n
    /\ link' = <<>>
    /\ sub_names' = <<>>
    /\ before' = map
    /\ UNCHANGED reg_vars
    /\ result' = resolve_for_full_name(map, n)
    /\ UNCHANGED map

Next ==
    \/ take_result
    \/ \E n \in Names, l \in Links : update(n, l)
    \/ \E p \in Paths : nrs_map_remove_subname(p)
    \/ \E p \in Paths : call_get_link_for(p)
    \/ call_get_default_link
    \/ \E s \in SubNameVecs : call_resolve_for_subnames(s)
    \/ \E n \in Names : call_resolve_for_full_name(n)

Spec == Init /\ [][Next]_vars

\* ------------------------------------------------------------------------
\* The name parser on its own
\* ------------------------------------------------------------------------

\* a call of parse_out_subnames(name)
call_parse_out_subnames(n) ==
    /\ op = "idle"
    /\ op' = "parse_out_subnames"
    /\ name' = n
    /\ result' = Ok(parse_out_subnames(n))
    /\ UNCHANGED <<map, before, sub_names, link>>
    /\ UNCHANGED reg_vars

NextNames ==
    \/ take_result
    \/ \E n \in WildNames : call_parse_out_subnames(n)

SpecNames == Init /\ [][NextNames]_vars

\* ------------------------------------------------------------------------
\* The register fetches on their own
\* ------------------------------------------------------------------------

\* a call of Safe::fetch_register_entries(url)
call_fetch_register_entries(u, reply_entry, reply_read) ==
    LET done == fetch_register_entries(u, reply_entry, reply_read) IN
    /\ op = "idle"
    /\ op' = "fetch_register_entries"
    /\ url' = u
    /\ hash' = None
    /\ client_calls' = done.calls
    /\ result' = done.result
    /\ UNCHANGED <<map, before, name, sub_names, link>>

\* a call of Safe::fetch_register_entry(url, hash)
call_fetch_register_entry(u, h, reply_entry) ==
    LET done == fetch_register_entry(u, h, reply_entry) IN
    /\ op = "idle"
    /\ op' = "fetch_register_entry"
    /\ url' = u
    /\ hash' = h
    /\ client_calls' = done.calls
    /\ result' = done.result
    /\ UNCHANGED <<map, before, name, sub_names, link>>

NextRegister ==
    \/ take_result
    \/ \E u \in Urls, re \in EntryReplies, rr \in ReadReplies :
          call_fetch_register_entries(u, re, rr)
    \/ \E u \in Urls, h \in EntryHashes, re \in EntryReplies :
          call_fetch_register_entry(u, h, re)

SpecRegister == Init /\ [][NextRegister]_vars

\* ------------------------------------------------------------------------
\* Properties
\* ------------------------------------------------------------------------

\* the last call was update(name, link) and it succeeded
UpdateOk == op = "update" /\ is_ok(result)

\* the key update(name, _) writes
KeyOfName == parse_out_subnames(name)

\* a decoded link is of a versionable classification
Versionable(decoded) ==
    \/ decoded.content_type \in {"FilesContainer", "NrsMapContainer"}
    \/ decoded.data_type = "Register"

\* the link decodes, is versionable and carries no version
UnanchoredVersionable(l) ==
    /\ is_ok(parse_url(l))
    /\ Versionable(parse_url(l)[2])
    /\ parse_url(l)[2].content_version = "none"

\* C1: when update(n, L) has succeeded, looking up the key the name parser
\* derives from n returns exactly L.
C1_RoundTrip ==
    UpdateOk => get_link_for(map, parse_out_subnames(name)) = Ok(link)

\* a successful update under a subname, written through a name with a scheme
C1_Witness ==
    /\ UpdateOk
    /\ name = Scheme \o FullName(<<Sub>>, Top)
    /\ map[Sub] = link

\* C2: update(n, L) fails with the validation error (InvalidInput) exactly
\* when L decodes to a versionable classification and carries no version; a
\* link with a version is accepted whatever its classification and a
\* non-versionable link without a version is accepted.
C2_ValidationIff ==
    op = "update" =>
        /\ (result = Err(InvalidInput)) <=> UnanchoredVersionable(link)
        /\ (is_ok(parse_url(link)) /\ parse_url(link)[2].content_version # "none")
              => result = Ok(link)
        /\ (is_ok(parse_url(link)) /\ ~Versionable(parse_url(link)[2]))
              => result = Ok(link)

\* an update refused for a Register link of plain content without a version
C2_Witness ==
    /\ op = "update"
    /\ result = Err(InvalidInput)
    /\ link = <<"Raw", "Register", "none">>

\* C3: when update(n, L) fails with the validation error the map is as it
\* was before the call, the entry at n's key included.
C3_FailedUpdateKeepsMap ==
    (op = "update" /\ result = Err(InvalidInput)) => map = before

\* a refused update whose key already had an entry
C3_Witness ==
    /\ op = "update"
    /\ result = Err(InvalidInput)
    /\ KeyOfName \in DOMAIN before
    /\ Cardinality(DOMAIN before) >= 2

\* C4: remove(p) fails with ContentError (not found) when p has no entry;
\* when p has one it returns the value stored at p and a get_link_for(p)
\* made right after fails with ContentError.
C4_Remove ==
    op = "nrs_map_remove_subname" =>
        IF name \in DOMAIN before
        THEN /\ result = Ok(before[name])
             /\ get_link_for(map, name) = Err(ContentError)
        ELSE result = Err(ContentError)

\* a successful remove that leaves other entries behind
C4_Witness ==
    /\ op = "nrs_map_remove_subname"
    /\ is_ok(result)
    /\ name = Sub
    /\ DOMAIN map # {}

\* C5: from the empty map, whatever updates and removes are made, every
\* link held in the map decodes and is not a FilesContainer, NrsMapContainer
\* or Register link without a version.
C5_StoredLinksValid ==
    \A k \in DOMAIN map :
        /\ is_ok(parse_url(map[k]))
        /\ ~UnanchoredVersionable(map[k])

\* a full map against which an update has just been refused
C5_Witness ==
    /\ Cardinality(DOMAIN map) = MaxSubs + 1
    /\ op = "update"
    /\ ~is_ok(result)
    /\ \E k \in DOMAIN map : map[k][1] = "FilesContainer"
    /\ \E k \in DOMAIN map : map[k][2] = "Register"

\* the parts of a sequence of parts but the last
AllButLast(parts) == SubSeq(parts, 1, Len(parts) - 1)

\* every part with the occurrences of the scheme text removed
WithoutScheme(parts) ==
    [i \in 1..Len(parts) |-> str_replace(parts[i], Scheme, <<>>)]

C7_ExactMatch ==
    op = "get_link_for" =>
        IF name \in DOMAIN map
        THEN result = Ok(map[name])
        ELSE result = Err(ContentError)

\* a lookup of "a.a" that fails while "" and "a" have entries
C7_Witness ==
    /\ op = "get_link_for"
    /\ name = <<"a", Dot, "a">>
    /\ DOMAIN map = {<<>>, Sub}
    /\ result = Err(ContentError)

\* C8: in every map state get_default_link(), resolve_for_subnames of no
\* labels and get_link_for("") give the same outcome, the same link or the
\* same failure, and that is what the calls return.
C8_DefaultEquivalence ==
    /\ get_default_link(map) = resolve_for_subnames(map, <<>>)
    /\ resolve_for_subnames(map, <<>>) = get_link_for(map, <<>>)
    /\ op = "get_default_link" => result = get_link_for(map, <<>>)
    /\ (op = "resolve_for_subnames" /\ sub_names = <<>>)
          => result = get_link_for(map, <<>>)

\* no labels resolved to the default entry of a map with other entries
C8_Witness ==
    /\ op = "resolve_for_subnames"
    /\ sub_names = <<>>
    /\ is_ok(result)
    /\ Cardinality(DOMAIN map) >= 2

\* C9: a successful update of a key that already has an entry replaces the
\* value: the key holds the new link and no longer the old one, the map has
\* the same keys and as many entries as before, and every successful update
\* returns the link it stored.
C9_Overwrite ==
    UpdateOk =>
        LET key == KeyOfName IN
        /\ result = Ok(map[key])
        /\ key \in DOMAIN before =>
              /\ map[key] = link
              /\ before[key] # link => map[key] # before[key]
              /\ DOMAIN map = DOMAIN before
              /\ Cardinality(DOMAIN map) = Cardinality(DOMAIN before)

\* a successful update over a different link stored at the same key
C9_Witness ==
    /\ UpdateOk
    /\ KeyOfName \in DOMAIN before
    /\ before[KeyOfName] # link
    /\ Cardinality(DOMAIN map) >= 2

\* C10: resolve_for_full_name(n) returns the value stored at the key made of
\* n's subname labels: with entries at "", "a" and "a.a" the names "x", "a.x"
\* and "a.a.x" resolve to the first, second and third entry, and names that
\* differ only in the top name resolve alike.
C10_FullNameResolution ==
    op = "resolve_for_full_name" =>
        /\ \A k \in 0..MaxSubs : \A t \in TopNames :
              name = FullName(SubSeqs(k), t) =>
                  LET key == join(SubSeqs(k), <<Dot>>) IN
                  /\ result = IF key \in DOMAIN map
                              THEN Ok(map[key]) ELSE Err(ContentError)
                  /\ \A t2 \in TopNames :
                        resolve_for_full_name(map, FullName(SubSeqs(k), t2))
                            = result
        /\ {<<>>, <<"a">>, <<"a", Dot, "a">>} \subseteq DOMAIN map =>
              /\ name = <<"x">> => result = Ok(map[<<>>])
              /\ name = <<"a", Dot, "x">> => result = Ok(map[<<"a">>])
              /\ name = <<"a", Dot, "a", Dot, "x">> =>
                    result = Ok(map[<<"a", Dot, "a">>])

\* "a.a.x" resolved to the third of three different entries
C10_Witness ==
    /\ op = "resolve_for_full_name"
    /\ name = <<"a", Dot, "a", Dot, "x">>
    /\ {<<>>, <<"a">>, <<"a", Dot, "a">>} \subseteq DOMAIN map
    /\ map[<<>>] # map[<<"a">>]
    /\ map[<<"a">>] # map[<<"a", Dot, "a">>]
    /\ map[<<>>] # map[<<"a", Dot, "a">>]
    /\ result = Ok(map[<<"a", Dot, "a">>])

\* the calls that only read the map
ReadOps == {"get_link_for", "get_default_link", "resolve_for_subnames",
            "resolve_for_full_name"}

\* the last call was a remove and it succeeded
RemoveOk == op = "nrs_map_remove_subname" /\ is_ok(result)

\* C12: an entry becomes present or changes value only through a successful
\* update of its key and becomes absent only through a successful remove of
\* its key; the lookups never change the map, whether they succeed or fail,
\* and a remove that fails leaves the map unchanged.
C12_CallerDriven ==
    /\ op \in ReadOps \cup {"idle"} => map = before
    /\ (op = "nrs_map_remove_subname" /\ ~is_ok(result)) => map = before
    /\ \A k \in DOMAIN map \ DOMAIN before : UpdateOk /\ k = KeyOfName
    /\ \A k \in DOMAIN before \ DOMAIN map : RemoveOk /\ k = name
    /\ \A k \in DOMAIN map \cap DOMAIN before :
          map[k] # before[k] => UpdateOk /\ k = KeyOfName

\* a lookup that found its entry in a map of several entries
C12_Witness ==
    /\ op = "get_link_for"
    /\ name = Sub
    /\ is_ok(result)
    /\ Cardinality(DOMAIN map) >= 2

\* the name without a leading scheme
StripPrefix(s) ==
    IF MatchesAt(s, Scheme, 1) THEN SubSeq(s, Len(Scheme) + 1, Len(s)) ELSE s

\* C13: parse_out_subnames(name) is the name with a leading "safe://"
\* removed if there is one, split on '.', the last label dropped and the
\* rest rejoined with '.'; scheme text elsewhere in the name is kept.
C13_SchemePrefixOnly ==
    op = "parse_out_subnames" =>
        result = Ok(join(AllButLast(str_split(StripPrefix(name), Dot)), <<Dot>>))

\* C14: resolve_for_subnames(labels) looks up the labels joined with one '.'
\* between consecutive labels, nothing in front and nothing behind (no
\* labels: the empty key; one label: that label), and returns what
\* get_link_for returns for that key.
C14_ResolveJoinsLabels ==
    op = "resolve_for_subnames" =>
        /\ result = get_link_for(map, join(sub_names, <<Dot>>))
        /\ Len(sub_names) = 0 => result = get_link_for(map, <<>>)
        /\ Len(sub_names) = 1 => result = get_link_for(map, sub_names[1])

\* two labels resolved to the entry at "a.a"
C14_Witness ==
    /\ op = "resolve_for_subnames"
    /\ sub_names = <<Sub, Sub>>
    /\ <<"a", Dot, "a">> \in DOMAIN map
    /\ result = Ok(map[<<"a", Dot, "a">>])

\* m and n have the same entry, or both none, at every key but k
SameBut(m, n, k) ==
    \A x \in (DOMAIN m \cup DOMAIN n) \ {k} :
        /\ x \in DOMAIN m
        /\ x \in DOMAIN n
        /\ m[x] = n[x]

\* C15: a successful update(n, L) changes only the entry at the key
\* parse_out_subnames(n) and a successful remove(p) only the entry at p;
\* every other key keeps its presence and its value.
C15_Frame ==
    /\ UpdateOk => SameBut(map, before, KeyOfName)
    /\ RemoveOk => SameBut(map, before, name)

\* the default entry removed from under two other entries
C15_Witness ==
    /\ RemoveOk
    /\ name = <<>>
    /\ Cardinality(DOMAIN map) >= 2

\* s contains the scheme text
HasScheme(s) == \E i \in 1..Len(s) : MatchesAt(s, Scheme, i)

\* C16: for labels s and a top name t without '.' and without the scheme
\* text, parse_out_subnames of s and t joined by '.' is sub_names_vec_to_str
\* of s, so the entry written under the full name is the one
\* resolve_for_subnames finds for s.
C16_KeyDerivationsAgree ==
    (op = "parse_out_subnames" /\ ~HasScheme(name)) =>
        LET s == AllButLast(str_split(name, Dot))
            stored == <<"Raw", "File", "v1">>
            written == map_insert(map, parse_out_subnames(name), stored)
        IN  /\ result = Ok(sub_names_vec_to_str(s))
            /\ resolve_for_subnames(written, s) = Ok(stored)

\* a name of two subname labels and a top name
C16_Witness ==
    /\ op = "parse_out_subnames"
    /\ name = <<"a", Dot, "b", Dot>>
    /\ result = Ok(<<"a", Dot, "b">>)

\* C17: after a successful update(n, L), remove of the key
\* parse_out_subnames(n) succeeds, returns L and leaves the key absent;
\* remove takes its argument as the key itself, so remove(n) with the full
\* name succeeds only if n itself is a key.
C17_RemoveTakesKey ==
    /\ UpdateOk =>
          LET key == KeyOfName
              byKey == remove_subname(map, key)
              byName == remove_subname(map, name)
          IN  /\ byKey[2] = Ok(link)
              /\ key \notin DOMAIN byKey[1]
              /\ byName[2] = get_link_for(map, name)
              /\ name \notin DOMAIN map => byName[1] = map
              /\ name # key => get_link_for(byName[1], key) = Ok(link)
    /\ op = "nrs_map_remove_subname" => result = get_link_for(before, name)

\* an entry written under "a.x" into a map with a default entry
C17_Witness ==
    /\ UpdateOk
    /\ name = FullName(<<Sub>>, Top)
    /\ <<>> \in DOMAIN map
    /\ map[<<>>] # link

\* C18: when Safe::parse_url cannot decode the link, update fails with the
\* parser's error, and whenever the validator fails nothing is inserted:
\* the map is as before the call.
C18_UndecodableLink ==
    op = "update" =>
        /\ ~is_ok(parse_url(link)) =>
              /\ result = parse_url(link)
              /\ map = before
        /\ ~is_ok(validate_nrs_link(link)) =>
              /\ result = validate_nrs_link(link)
              /\ map = before

\* an undecodable link refused for a key that has an entry
C18_Witness ==
    /\ op = "update"
    /\ link = BadLink
    /\ result = Err(UrlError)
    /\ KeyOfName \in DOMAIN map

\* the one call the fetch made to safe_client, and its reply
TheCall == client_calls[1]
TheReply == TheCall[Len(TheCall)]

\* C19: fetch_register_entries on a url with a version hash asks the client
\* for that one entry, never for the whole register, and returns exactly
\* {(hash, entry)}; on a url without version it returns the entries
\* read_register gives; an EmptyContent or ContentNotFound failure comes back
\* as the same kind with a message naming the url, any other failure as it
\* is; a url whose address is no register fails with ContentError.
C19_FetchRegisterEntries ==
    op = "fetch_register_entries" =>
        IF url.address \notin RegisterAddresses
        THEN /\ ~is_ok(result)
             /\ result[2] = ContentError
             /\ client_calls = <<>>
        ELSE /\ Len(client_calls) = 1
             /\ IF url.content_version # None
                THEN /\ TheCall[1] = "get_register_entry"
                     /\ TheCall[2] = url.address
                     /\ TheCall[3] = url.content_version
                     /\ is_ok(TheReply) =>
                           result = Ok({<<url.content_version, TheReply[2]>>})
                ELSE /\ TheCall[1] = "read_register"
                     /\ TheCall[2] = url.address
                     /\ is_ok(TheReply) => result = TheReply
             /\ ~is_ok(TheReply) =>
                   IF TheReply[2] \in {EmptyContent, ContentNotFound}
                   THEN /\ ~is_ok(result)
                        /\ result[2] = TheReply[2]
                        /\ result[3][2] = url
                   ELSE result = TheReply

\* the entry of a version hash fetched from a register
C19_Witness ==
    /\ op = "fetch_register_entries"
    /\ url = [address |-> <<"Register", "r1">>, content_version |-> "h2"]
    /\ result = Ok({<<"h2", "e1">>})

====
